---- MODULE Spec2Model ----
(***************************************************************************)
(* Model of src/app2.py, the Streamlit "Employee Timesheet Tracker".       *)
(*                                                                         *)
(* The program is one script, main(), that Streamlit runs from top to      *)
(* bottom once when the page loads and once more after every single widget *)
(* interaction (a sidebar change, a button click, a grid edit).  The only  *)
(* state that survives a run is st.session_state.timesheet_data and the    *)
(* values of the sidebar widgets.  One action of the model is one run.     *)
(*                                                                         *)
(* Numbers.  The grid is configured with step=0.5 for "Hours Worked" and   *)
(* step=0.25 for "Hourly Rate", so the model keeps                         *)
(*     Hours Worked  in half hours        (48 is 24.0 h),                  *)
(*     Hourly Rate   in quarter dollars,                                   *)
(*     Daily Total   in eighths of a dollar (half hours * quarters),       *)
(* all of which are exact binary floats, so that float64 arithmetic on     *)
(* them is exact.  NaN is the float64 not-a-number pandas stores in a cell *)
(* that received no value.  Dates are day numbers of the year 2025.        *)
(***************************************************************************)
EXTENDS Integers, Sequences, FiniteSets, TLC

\* ---------------------------------------------------------------- bounds
\* Number of consecutive days the sidebar date pickers range over.
MaxDays == 2
\* Number of runs of the script in one session.
MaxRuns == 4
\* First day offered by the date pickers: 30 November 2025, a Sunday, so
\* that the window crosses a month boundary and an ISO week boundary.
FirstDay == 304 + 30
DateChoices == FirstDay .. (FirstDay + MaxDays - 1)
NameChoices == {"Alex", "Sam"}
\* Values the grid can supply for a cell (in the units above).
HoursChoices == {0, 1}
RateChoices == {0, 1}
TaskChoices == {"", "done"}

\* ---------------------------------------------------------------- floats
NaN == 0 - 1
NaNText == "nan"
IsNaN(x) == x = NaN

\* float64 product: NaN if either operand is NaN.
FMul(a, b) == IF IsNaN(a) \/ IsNaN(b) THEN NaN ELSE a * b

\* Python's == on float64: NaN compares unequal to everything, itself included.
FEq(a, b) == ~IsNaN(a) /\ ~IsNaN(b) /\ a = b

\* Series.sum() / groupby sum: missing values are skipped (skipna).
RECURSIVE SumSkipNa(_)
SumSkipNa(s) ==
  IF s = << >> THEN 0
  ELSE (IF IsNaN(Head(s)) THEN 0 ELSE Head(s)) + SumSkipNa(Tail(s))

\* ---------------------------------------------------------------- calendar
MonthNames == << "January", "February", "March", "April", "May", "June", "July",
                 "August", "September", "October", "November", "December" >>
\* Days of 2025 before the first day of month m.
DaysBefore == << 0, 31, 59, 90, 120, 151, 181, 212, 243, 273, 304, 334 >>
DayNames == << "Monday", "Tuesday", "Wednesday", "Thursday", "Friday", "Saturday",
               "Sunday" >>

MonthOf(d) == CHOOSE m \in 1..12 :
                 /\ DaysBefore[m] < d
                 /\ (m = 12 \/ d <= DaysBefore[m + 1])
\* dt.month_name()
month_name(d) == MonthNames[MonthOf(d)]
\* ISO weekday, Monday = 1; 1 January 2025 is a Wednesday.
IsoWeekday(d) == ((d + 1) % 7) + 1
\* strftime("%A")
day_name(d) == DayNames[IsoWeekday(d)]
\* dt.isocalendar().week; 2025 has 52 ISO weeks, its last days are in week 1.
iso_week(d) ==
  LET w == (d - IsoWeekday(d) + 10) \div 7
  IN  IF w < 1 THEN 52 ELSE IF w > 52 THEN 1 ELSE w

\* Alphabetical rank of a month name (Python's ordering of the strings).
MonthsSorted == << "April", "August", "December", "February", "January", "July",
                   "June", "March", "May", "November", "October", "September" >>
AlphaRank(name) == CHOOSE i \in 1..12 : MonthsSorted[i] = name

\* ---------------------------------------------------------------- builder
\* date_range with the end left out of the range.
date_range_exclusive(start, end) ==
  IF start >= end THEN << >> ELSE [k \in 1..(end - start) |-> start + k - 1]

\* pd.date_range(start, end, freq="D"): every day of [start, end], ascending;
\* empty when start > end.
date_range(start, end) ==
  IF start > end THEN << >> ELSE [k \in 1..(end - start + 1) |-> start + k - 1]

init_timesheet(start, end, name) ==
  LET dates == date_range(start, end)
  IN  [k \in 1..Len(dates) |->
         [Date |-> dates[k], Day |-> day_name(dates[k]),
          Hours |-> 0, Rate |-> 0, Total |-> 0, Tasks |-> "",
          Week |-> iso_week(dates[k]), Month |-> month_name(dates[k]),
          Name |-> name]]

calculate_totals(df) ==
  [k \in 1..Len(df) |-> [df[k] EXCEPT !.Total = FMul(df[k].Hours, df[k].Rate)]]


\* ---------------------------------------------------------------- metrics
HoursColumn(df) == [k \in 1..Len(df) |-> df[k].Hours]
RateColumn(df) == [k \in 1..Len(df) |-> df[k].Rate]
TotalColumn(df) == [k \in 1..Len(df) |-> df[k].Total]

\* The four metrics shown above the grid.  The mean is kept as an exact
\* fraction num/den of quarter dollars.
summary_metrics(df) ==
  LET rated == SelectSeq(df, LAMBDA r : r.Rate > 0)
      worked == SelectSeq(df, LAMBDA r : r.Hours > 0)
  IN  [total_hours |-> SumSkipNa(HoursColumn(df)),
       total_earnings |-> SumSkipNa(TotalColumn(df)),
       avg_hourly_rate |->
         IF Len(rated) > 0
           THEN [num |-> SumSkipNa(RateColumn(rated)), den |-> Len(rated)]
           ELSE [num |-> 0, den |-> 1],
       days_worked |-> Len(worked)]

\* ---------------------------------------------------------------- grid
\* What the grid is given: five columns, rows labelled by the RangeIndex 0..n-1.
editor_view(df) ==
  [k \in 1..Len(df) |->
     [idx |-> k - 1, Date |-> df[k].Date, Day |-> df[k].Day,
      Hours |-> df[k].Hours, Rate |-> df[k].Rate, Tasks |-> df[k].Tasks]]

NoEdit == [kind |-> "none", row |-> 0, col |-> "", num |-> 0, text |-> ""]

\* st.data_editor(..., num_rows="dynamic"): the view with the user's edit
\* applied.  Date and Day are disabled; a number cell holds a value within
\* the column's bounds or nothing; rows can be deleted and appended (an
\* appended row gets the next index label and has no Date and no Day).
data_editor(view, g) ==
  CASE g.kind = "edit" /\ g.col = "Hours" ->
         [k \in 1..Len(view) |->
            IF view[k].idx = g.row THEN [view[k] EXCEPT !.Hours = g.num] ELSE view[k]]
    [] g.kind = "edit" /\ g.col = "Rate" ->
         [k \in 1..Len(view) |->
            IF view[k].idx = g.row THEN [view[k] EXCEPT !.Rate = g.num] ELSE view[k]]
    [] g.kind = "edit" /\ g.col = "Tasks" ->
         [k \in 1..Len(view) |->
            IF view[k].idx = g.row THEN [view[k] EXCEPT !.Tasks = g.text] ELSE view[k]]
    [] g.kind = "blank" /\ g.col = "Hours" ->
         [k \in 1..Len(view) |->
            IF view[k].idx = g.row THEN [view[k] EXCEPT !.Hours = NaN] ELSE view[k]]
    [] g.kind = "blank" /\ g.col = "Rate" ->
         [k \in 1..Len(view) |->
            IF view[k].idx = g.row THEN [view[k] EXCEPT !.Rate = NaN] ELSE view[k]]
    [] g.kind = "remove" -> SelectSeq(view, LAMBDA r : r.idx # g.row)
    [] g.kind = "add" ->
         Append(view, [idx |-> Len(view), Date |-> NaN, Day |-> NaNText,
                       Hours |-> g.num, Rate |-> g.num, Tasks |-> g.text])
    [] OTHER -> view

\* ---------------------------------------------------------------- merge
HasLabel(edited, i) == \E k \in 1..Len(edited) : edited[k].idx = i
AtLabel(edited, i) == edited[CHOOSE k \in 1..Len(edited) : edited[k].idx = i]

\* A merge that takes over the grid's rows: a row the grid no longer
\* supplies is dropped from the table.
merge_edited_inner(df, edited) ==
  LET kept == SelectSeq(df, LAMBDA r : \E k \in 1..Len(edited) :
                                          /\ edited[k].Date = r.Date
                                          /\ edited[k].idx < Len(df))
  IN  [k \in 1..Len(kept) |->
         [kept[k] EXCEPT
            !.Hours = (CHOOSE e \in {edited[j] : j \in 1..Len(edited)} :
                         e.Date = kept[k].Date).Hours,
            !.Rate = (CHOOSE e \in {edited[j] : j \in 1..Len(edited)} :
                        e.Date = kept[k].Date).Rate,
            !.Tasks = (CHOOSE e \in {edited[j] : j \in 1..Len(edited)} :
                         e.Date = kept[k].Date).Tasks]]

\* df.loc[:, col] = edited_df[col] for the three editable columns: the
\* assignment aligns the right-hand Series on df's index, so a label the
\* grid no longer supplies receives NaN and a label df does not have is
\* dropped.
merge_edited(df, edited) ==
  [k \in 1..Len(df) |->
     IF HasLabel(edited, k - 1)
       THEN [df[k] EXCEPT !.Hours = AtLabel(edited, k - 1).Hours,
                          !.Rate = AtLabel(edited, k - 1).Rate,
                          !.Tasks = AtLabel(edited, k - 1).Tasks]
       ELSE [df[k] EXCEPT !.Hours = NaN, !.Rate = NaN, !.Tasks = NaNText]]

\* ---------------------------------------------------------------- summaries
\* round() without its argument: to a whole number (still in hundredths).
Round0(num, den) ==
  IF IsNaN(num) THEN NaN
  ELSE LET q == num \div den
           r == num % den
       IN  100 * (IF 2 * r < den THEN q
                  ELSE IF 2 * r > den THEN q + 1
                  ELSE IF q % 2 = 0 THEN q ELSE q + 1)

\* round(2) of the float num/den, in hundredths: numpy rounds half to even.
Round2(num, den) ==
  IF IsNaN(num) THEN NaN
  ELSE LET q == (100 * num) \div den
           r == (100 * num) % den
       IN  IF 2 * r < den THEN q
           ELSE IF 2 * r > den THEN q + 1
           ELSE IF q % 2 = 0 THEN q ELSE q + 1

\* groupby sorts its keys: week numbers ascending, month names as strings.
SortedWeeks(S) ==
  [j \in 1..Cardinality(S) |->
     CHOOSE x \in S : Cardinality({y \in S : y < x}) = j - 1]
SortedMonths(S) ==
  [j \in 1..Cardinality(S) |->
     CHOOSE x \in S : Cardinality({y \in S : AlphaRank(y) < AlphaRank(x)}) = j - 1]

\* .agg({"Hours Worked": "sum", "Daily Total": "sum"}).round(2) for the rows
\* of one group: Total Hours in hundredths of an hour, Total Earnings ($) in
\* cents.
agg_sum_round(key, rows) ==
  [key |-> key,
   hours |-> Round2(SumSkipNa(HoursColumn(rows)), 2),
   earnings |-> Round2(SumSkipNa(TotalColumn(rows)), 8)]

\* df.groupby("Week")...: one entry per distinct week, in sorted key order.
weekly_of(df) ==
  LET keys == SortedWeeks({df[k].Week : k \in 1..Len(df)})
  IN  [j \in 1..Len(keys) |->
         agg_sum_round(keys[j], SelectSeq(df, LAMBDA r : r.Week = keys[j]))]

\* df.groupby("Month")...: one entry per distinct month name, in sorted key
\* order.
monthly_of(df) ==
  LET keys == SortedMonths({df[k].Month : k \in 1..Len(df)})
  IN  [j \in 1..Len(keys) |->
         agg_sum_round(keys[j], SelectSeq(df, LAMBDA r : r.Month = keys[j]))]

\* ---------------------------------------------------------------- export
RowTuple(r) == << r.Date, r.Day, r.Hours, r.Rate, r.Total, r.Tasks, r.Week,
                  r.Month, r.Name >>
SummaryTuple(e) == << e.key, e.hours, e.earnings >>
Header == << "Date", "Day", "Hours Worked", "Hourly Rate", "Daily Total",
             "Tasks Completed", "Week", "Month", "Employee Name" >>
SummaryHeader == << "Total Hours", "Total Earnings ($)" >>

\* df.to_csv(index=False): header row, then one line per row, all columns.
to_csv(df) == << Header >> \o [k \in 1..Len(df) |-> RowTuple(df[k])]
\* One sheet of the workbook.
to_excel(name, header, rows) == [sheet |-> name, header |-> header, rows |-> rows]

\* An export that first rounds the Daily Total column of df in place.
export_data_in_place(clicked, df, weekly, monthly) ==
  [df |-> IF clicked \in {"excel", "csv"}
            THEN [k \in 1..Len(df) |-> [df[k] EXCEPT !.Total = Round2(df[k].Total, 8)]]
            ELSE df,
   weekly |-> weekly, monthly |-> monthly,
   download |-> [kind |-> clicked, data |-> << >>]]

\* The export buttons.  df, weekly and monthly are the objects the run holds
\* at that point (df is the very object stored in the session state); the
\* result gives them as the export leaves them, with the prepared download.
export_data(clicked, df, weekly, monthly) ==
  [df |-> df, weekly |-> weekly, monthly |-> monthly,
   download |->
     IF clicked = "excel"
       THEN [kind |-> "excel",
             data |-> << to_excel("Daily Timesheet", Header,
                                  [k \in 1..Len(df) |-> RowTuple(df[k])]),
                         to_excel("Weekly Summary", SummaryHeader,
                                  [k \in 1..Len(weekly) |-> SummaryTuple(weekly[k])]),
                         to_excel("Monthly Summary", SummaryHeader,
                                  [k \in 1..Len(monthly) |-> SummaryTuple(monthly[k])]) >>]
     ELSE IF clicked = "csv"
       THEN [kind |-> "csv", data |-> to_csv(df)]
       ELSE [kind |-> "none", data |-> << >>]]


\* ---------------------------------------------------------------- main
VARIABLES
  timesheet_data,   \* st.session_state.timesheet_data (meaningful unless data_is_none)
  data_is_none,     \* st.session_state.timesheet_data is None
  employee_name,    \* sidebar text input
  start_date,       \* sidebar date input
  end_date,         \* sidebar date input
  pressed,          \* the interaction that triggered the latest run
  edited_df,        \* what st.data_editor returned in the latest run
  metrics,          \* the four st.metric values of the latest run
  weekly_summary,   \* weekly_summary of the latest run
  monthly_summary,  \* monthly_summary of the latest run
  download,         \* the download prepared by the latest run
  built,            \* what init_timesheet returned in the latest run, if called
  runs              \* how many times the script has run in this session

vars == << timesheet_data, data_is_none, employee_name, start_date, end_date,
           pressed, edited_df, metrics, weekly_summary, monthly_summary, download,
           built, runs >>

\* st.button(label): True only in the run that the click on that very button
\* triggered.
st_button(clicked, label) == clicked = label

\* One run of main() with the sidebar showing (name, sd, ed), triggered by a
\* click on button `clicked` ("none" for any other interaction), the grid
\* holding edit g.  Gives what the run leaves behind and what it displayed.
\* The run is written as a chain of stages, each handing the values it
\* computed to the next.

\* lines 175-178: the clear buttons, then the end of the run.
main_clear(ex, edited, shown, made, name, sd, ed, clicked) ==
  [data |-> IF st_button(clicked, "clear")
              THEN IF st_button(clicked, "confirm")
                     THEN init_timesheet(sd, ed, name) ELSE ex.df
              ELSE ex.df,
   built |-> made, edited |-> edited, metrics |-> shown,
   weekly |-> ex.weekly, monthly |-> ex.monthly, download |-> ex.download]

\* lines 123-171: the two summaries of df, then the export buttons.
main_summaries(df, edited, shown, made, name, sd, ed, clicked) ==
  main_clear(export_data(clicked, df, weekly_of(df), monthly_of(df)),
             edited, shown, made, name, sd, ed, clicked)

\* lines 109-115: merge the grid's columns into df, recompute, store.
main_merge(df0, edited, shown, made, name, sd, ed, clicked) ==
  main_summaries(calculate_totals(merge_edited(df0, edited)),
                 edited, shown, made, name, sd, ed, clicked)

\* lines 66-106: df is a copy of the stored table; the metrics are computed
\* and shown; the grid is drawn and returns its content.
main_dashboard(df0, made, name, sd, ed, clicked, g) ==
  main_merge(df0, data_editor(editor_view(df0), g), summary_metrics(df0),
             made, name, sd, ed, clicked)

\* lines 48-50 and 63-64: the Initialize/Reset button, then the first-run
\* initialisation.  `made` is what init_timesheet returned there.
main_setup(called, session, made, name, sd, ed, clicked, g) ==
  main_dashboard(IF called THEN made ELSE session,
                 made, name, sd, ed, clicked, g)

main(is_none, session, name, sd, ed, clicked, g) ==
  main_setup(st_button(clicked, "init") \/ is_none, session,
             IF st_button(clicked, "init") \/ is_none
               THEN init_timesheet(sd, ed, name) ELSE << >>,
             name, sd, ed, clicked, g)

Run(name, sd, ed, clicked, g, kind) ==
  /\ runs < MaxRuns
  /\ \E r \in {main(data_is_none, timesheet_data, name, sd, ed, clicked, g)} :
      /\ runs' = runs + 1
      /\ timesheet_data' = r.data
      /\ data_is_none' = FALSE
      /\ employee_name' = name
      /\ start_date' = sd
      /\ end_date' = ed
      /\ pressed' = kind
      /\ edited_df' = r.edited
      /\ metrics' = r.metrics
      /\ weekly_summary' = r.weekly
      /\ monthly_summary' = r.monthly
      /\ download' = r.download
      /\ built' = r.built

\* Module level, lines 10-11: nothing stored yet; the sidebar widgets hold
\* their initial values.
Init ==
  /\ timesheet_data = << >>
  /\ data_is_none = TRUE
  /\ employee_name \in NameChoices
  /\ start_date \in DateChoices
  /\ end_date \in DateChoices
  /\ pressed = "start"
  /\ edited_df = << >>
  /\ metrics = summary_metrics(<< >>)
  /\ weekly_summary = << >>
  /\ monthly_summary = << >>
  /\ download = [kind |-> "none", data |-> << >>]
  /\ built = << >>
  /\ runs = 0

\* Every interaction triggers exactly one run.  In a run that the grid did
\* not trigger, the grid returns the table it is given (NoEdit): whatever it
\* showed before is already merged into the stored table.

\* The run at page load.
FirstRun ==
  /\ data_is_none
  /\ Run(employee_name, start_date, end_date, "none", NoEdit, "load")

ChangeName ==
  /\ ~data_is_none
  /\ \E n \in NameChoices \ {employee_name} :
       Run(n, start_date, end_date, "none", NoEdit, "sidebar")

ChangeStart ==
  /\ ~data_is_none
  /\ \E d \in DateChoices \ {start_date} :
       Run(employee_name, d, end_date, "none", NoEdit, "sidebar")

ChangeEnd ==
  /\ ~data_is_none
  /\ \E d \in DateChoices \ {end_date} :
       Run(employee_name, start_date, d, "none", NoEdit, "sidebar")

Click(label) ==
  /\ ~data_is_none
  /\ Run(employee_name, start_date, end_date, label, NoEdit, label)

ClickInit == Click("init")
ClickExcel == Click("excel")
ClickCsv == Click("csv")
ClickClear == Click("clear")
\* "Confirm Clear" is on the page only after a run in which "Clear All Data"
\* read as pressed.
ClickConfirm == pressed = "clear" /\ Click("confirm")

Grid(g) ==
  /\ ~data_is_none
  /\ Run(employee_name, start_date, end_date, "none", g, g.kind)

Rows == 0 .. (Len(timesheet_data) - 1)

EditHours ==
  \E i \in Rows, v \in HoursChoices :
    Grid([kind |-> "edit", row |-> i, col |-> "Hours", num |-> v, text |-> ""])
EditRate ==
  \E i \in Rows, v \in RateChoices :
    Grid([kind |-> "edit", row |-> i, col |-> "Rate", num |-> v, text |-> ""])
EditTasks ==
  \E i \in Rows, t \in TaskChoices :
    Grid([kind |-> "edit", row |-> i, col |-> "Tasks", num |-> 0, text |-> t])
\* A number cell emptied by the user.
BlankCell ==
  \E i \in Rows, c \in {"Hours", "Rate"} :
    Grid([kind |-> "blank", row |-> i, col |-> c, num |-> 0, text |-> ""])
RemoveRow ==
  \E i \in Rows :
    Grid([kind |-> "remove", row |-> i, col |-> "", num |-> 0, text |-> ""])
\* A row appended in the grid: its cells are empty.
AddRow ==
  Grid([kind |-> "add", row |-> 0, col |-> "", num |-> NaN, text |-> NaNText])

Next ==
  \/ FirstRun
  \/ ChangeName
  \/ ChangeStart
  \/ ChangeEnd
  \/ ClickInit
  \/ ClickExcel
  \/ ClickCsv
  \/ ClickClear
  \/ ClickConfirm
  \/ EditHours
  \/ EditRate
  \/ EditTasks
  \/ BlankCell
  \/ RemoveRow
  \/ AddRow

Spec == Init /\ [][Next]_vars

\* The same program with a grid that never hands over an empty number cell:
\* every value it supplies is within the column's bounds.
NextClamped ==
  \/ FirstRun
  \/ ChangeName
  \/ ChangeStart
  \/ ChangeEnd
  \/ ClickInit
  \/ ClickExcel
  \/ ClickCsv
  \/ ClickClear
  \/ ClickConfirm
  \/ EditHours
  \/ EditRate
  \/ EditTasks
  \/ RemoveRow
  \/ AddRow

SpecClamped == Init /\ [][NextClamped]_vars


\* ================================================================ claims
BuilderRan == pressed \in {"load", "init"}
Abs(x) == IF x < 0 THEN 0 - x ELSE x

\* C1: the table init_timesheet(start, end, name) returns has one row per day
\* of the inclusive range: (end - start).days + 1 rows when start <= end, with
\* distinct, strictly ascending dates inside the range, and none when
\* start > end; every row has Hours Worked, Hourly Rate and Daily Total 0 and
\* an empty Tasks Completed.
C1_OneRowPerDay ==
  BuilderRan =>
    /\ start_date <= end_date => Len(built) = end_date - start_date + 1
    /\ start_date > end_date => Len(built) = 0
    /\ \A i, j \in 1..Len(built) : i < j => built[i].Date < built[j].Date
    /\ \A i \in 1..Len(built) :
         /\ built[i].Date \in start_date .. end_date
         /\ built[i].Hours = 0
         /\ built[i].Rate = 0
         /\ built[i].Total = 0
         /\ built[i].Tasks = ""

C1_Witness ==
  /\ pressed = "init"
  /\ start_date < end_date
  /\ Len(built) >= 2
  /\ built[1].Date = start_date
  /\ built[Len(built)].Date = end_date

\* C2: in the stored timesheet every row satisfies
\* Daily Total == Hours Worked * Hourly Rate (the == of float64).
C2_DailyTotalIsProduct ==
  \A k \in 1..Len(timesheet_data) :
    FEq(timesheet_data[k].Total,
        FMul(timesheet_data[k].Hours, timesheet_data[k].Rate))

\* Sums over a summary and over the table, in thousandths (of an hour, of a
\* dollar): the summaries hold hundredths, the table half hours and eighths
\* of a dollar.
SummaryHours(summary) == 10 * SumSkipNa([j \in 1..Len(summary) |-> summary[j].hours])
SummaryEarnings(summary) ==
  10 * SumSkipNa([j \in 1..Len(summary) |-> summary[j].earnings])
TableHours == 500 * SumSkipNa(HoursColumn(timesheet_data))
TableEarnings == 125 * SumSkipNa(TotalColumn(timesheet_data))

FirstRowOf(m) ==
  CHOOSE k \in 1..Len(timesheet_data) :
    /\ timesheet_data[k].Month = m
    /\ \A i \in 1..(k - 1) : timesheet_data[i].Month # m

\* C4: the monthly summary has one entry per month name of the table, and the
\* entries are in the order in which the months first occur in the table.
C4_MonthsInCalendarOrder ==
  /\ {monthly_summary[j].key : j \in 1..Len(monthly_summary)}
       = {timesheet_data[k].Month : k \in 1..Len(timesheet_data)}
  /\ Len(monthly_summary) = Cardinality({timesheet_data[k].Month : k \in 1..Len(timesheet_data)})
  /\ \A i, j \in 1..Len(monthly_summary) :
       i < j => FirstRowOf(monthly_summary[i].key) < FirstRowOf(monthly_summary[j].key)

\* C5: the metrics a run displays are those of the table that run stores and
\* summarises (the edit merged, Daily Total recomputed).
GridRan == pressed \in {"edit", "blank", "remove", "add"}

C5_MetricsOfCurrentTable ==
  GridRan => metrics = summary_metrics(timesheet_data)


\* C6: after "Clear All Data" and then "Confirm Clear" the stored timesheet is
\* the table the builder gives for the sidebar's current range and name.
C6_ClearRebuilds ==
  pressed = "confirm" =>
    timesheet_data = init_timesheet(start_date, end_date, employee_name)

\* C7: a number cell for which the grid supplies no value is not updated: the
\* stored row keeps the value it had before the run.
C7_BadCellKeepsPriorValue ==
  [][\A k \in 1..Len(edited_df') :
       (/\ pressed' \in {"edit", "blank", "remove", "add"}
        /\ edited_df'[k].idx < Len(timesheet_data))
       => /\ IsNaN(edited_df'[k].Hours)
               => timesheet_data'[edited_df'[k].idx + 1].Hours
                    = timesheet_data[edited_df'[k].idx + 1].Hours
          /\ IsNaN(edited_df'[k].Rate)
               => timesheet_data'[edited_df'[k].idx + 1].Rate
                    = timesheet_data[edited_df'[k].idx + 1].Rate]_vars

\* C8: with a grid that clamps every value it supplies, every stored row has
\* Hours Worked in [0, 24] and Hourly Rate >= 0.
C8_ValuesInBounds ==
  \A k \in 1..Len(timesheet_data) :
    /\ timesheet_data[k].Hours >= 0
    /\ timesheet_data[k].Hours <= 48
    /\ timesheet_data[k].Rate >= 0

\* C9: a run in which an export button reads as pressed stores the table,
\* and leaves the two summaries, that the same run without the export would.
C9_ExportIsPureRead ==
  [][pressed' \in {"excel", "csv"} =>
       /\ timesheet_data'
            = main(data_is_none, timesheet_data, employee_name', start_date',
                   end_date', "none", NoEdit).data
       /\ weekly_summary'
            = main(data_is_none, timesheet_data, employee_name', start_date',
                   end_date', "none", NoEdit).weekly
       /\ monthly_summary'
            = main(data_is_none, timesheet_data, employee_name', start_date',
                   end_date', "none", NoEdit).monthly]_vars

\* An Excel export of a table in which somebody worked.
C9_Witness ==
  /\ pressed = "excel"
  /\ download.kind = "excel"
  /\ Len(download.data) = 3
  /\ \E k \in 1..Len(timesheet_data) : timesheet_data[k].Total > 0

\* C10: a run that does not invoke the builder keeps the number of rows of
\* the stored timesheet and every row's Date, Day, Week, Month and Employee
\* Name, whatever the grid and the sidebar did.
C10_CreatedColumnsFrozen ==
  [][(~data_is_none /\ pressed' # "init") =>
       /\ Len(timesheet_data') = Len(timesheet_data)
       /\ \A k \in 1..Len(timesheet_data) :
            /\ timesheet_data'[k].Date = timesheet_data[k].Date
            /\ timesheet_data'[k].Day = timesheet_data[k].Day
            /\ timesheet_data'[k].Week = timesheet_data[k].Week
            /\ timesheet_data'[k].Month = timesheet_data[k].Month
            /\ timesheet_data'[k].Name = timesheet_data[k].Name]_vars

\* A row was removed in the grid after the sidebar's name and range moved
\* away from those the table was built with.
C10_Witness ==
  /\ pressed = "remove"
  /\ Len(edited_df) < Len(timesheet_data)
  /\ Len(timesheet_data) = 2
  /\ timesheet_data[1].Name # employee_name
  /\ timesheet_data[1].Date # start_date

====
